---- MODULE Spec2Model ----
(***************************************************************************)
(* RedisStore (src/src/index.ts): a DNS record store over Redis hashes.    *)
(* A domain name is turned into a storage key (labels reversed, joined by  *)
(* ':'); each key holds a hash record-type -> JSON array of record values. *)
(* Strings are modelled as sequences of one-character strings, so that     *)
(* split / reverse / join are computed as the code computes them.  A JSON  *)
(* text is a sequence of tokens ("[", element texts, ",", "]").            *)
(***************************************************************************)
EXTENDS Integers, Sequences, FiniteSets, TLC

(***************************************************************************)
(* Bounds of the model.                                                    *)
(***************************************************************************)
MaxFields  == 2   \* fields (key, record type) existing at the same time
MaxList    == 2   \* values in one field
MaxRecords == 2   \* values in the whole store
MaxName    == 5   \* characters of a name given to the key conversion alone

(***************************************************************************)
(* Strings.                                                                *)
(***************************************************************************)
RECURSIVE Split(_, _)
\* String.prototype.split(sep): always at least one part
Split(s, sep) ==
  IF s = <<>> THEN << <<>> >>
  ELSE LET rest == Split(Tail(s), sep)
       IN  IF Head(s) = sep
           THEN << <<>> >> \o rest
           ELSE << <<Head(s)>> \o Head(rest) >> \o Tail(rest)

RECURSIVE Join(_, _)
\* Array.prototype.join(sep)
Join(parts, sep) ==
  IF parts = <<>> THEN <<>>
  ELSE IF Len(parts) = 1 THEN parts[1]
  ELSE parts[1] \o <<sep>> \o Join(Tail(parts), sep)

\* Array.prototype.toReversed()
toReversed(parts) == [i \in 1..Len(parts) |-> parts[Len(parts) + 1 - i]]

\* Array.prototype.toSpliced(-1, 1): drop the last element
toSpliced(parts) == SubSeq(parts, 1, Len(parts) - 1)

\* a conversion that keeps the order of the labels
nameToKey_KeepsOrder(name) == Join(Split(name, "."), ":")

nameToKey(name) == Join(toReversed(Split(name, ".")), ":")

\* key.split(':').toSpliced(-1, 1).join(':')
StripLast(key) == Join(toSpliced(Split(key, ":")), ":")

\* key + ':*'
WildcardKeyOf(key) == key \o <<":", "*">>

\* wildcardKey.split(':').toReversed().join('.')
keyToName(key) == Join(toReversed(Split(key, ":")), ".")

RootWildcard == <<"*">>

(***************************************************************************)
(* Inputs.                                                                 *)
(***************************************************************************)
N_cab     == <<"c", ".", "a", ".", "b">>        \* c.a.b
N_ab      == <<"a", ".", "b">>                  \* a.b
N_star_ab == <<"*", ".", "a", ".", "b">>        \* *.a.b
N_star_b  == <<"*", ".", "b">>                  \* *.b
N_star    == <<"*">>                            \* *
N_star_   == <<"*", ".">>                       \* "*."  (key ":*")
N_d       == <<"d">>                            \* d
N_empty   == <<>>                               \* ""

\* names written to by the calls the model makes
WriteNames == {N_cab, N_star_ab}
\* names that hold records in a database the store is connected to
StoredNames == WriteNames \cup {N_star_b, N_star_, N_star}
\* names queried
Names == {N_cab, N_ab, N_star_b, N_d, N_empty}

Types == {"A", "TXT"}
NoType == "undefined"

\* record values, written as JavaScript literals
Values == {"''", "'x'"}
NoData == "undefined"
\* JavaScript truthiness of a value
Truthy(v) == v \notin {"''", "0", "false", "null", NoData}

(***************************************************************************)
(* JSON.                                                                   *)
(***************************************************************************)
\* JSON text of one value
JsonText(v) ==
  CASE v = "''"  -> "\"\""
    [] v = "'x'" -> "\"x\""
    [] v = "0"   -> "0"
    [] OTHER     -> "null"

\* value of one JSON text
JsonValue(t) ==
  CASE t = "\"\""  -> "''"
    [] t = "\"x\"" -> "'x'"
    [] t = "0"     -> "0"
    [] OTHER       -> "null"

JsonTexts == {JsonText(v) : v \in Values}

RECURSIVE Elems(_)
Elems(list) ==
  IF list = <<>> THEN <<>>
  ELSE IF Len(list) = 1 THEN <<JsonText(list[1])>>
  ELSE <<JsonText(list[1]), ",">> \o Elems(Tail(list))

\* JSON.stringify of an array of values
Stringify(list) == <<"[">> \o Elems(list) \o <<"]">>

\* the tokens between the brackets are element texts separated by commas
WellFormed(toks) ==
  /\ Len(toks) >= 2
  /\ toks[1] = "["
  /\ toks[Len(toks)] = "]"
  /\ LET n == Len(toks) - 2
     IN  /\ n = 0 \/ n % 2 = 1
         /\ \A i \in 1..n :
              IF i % 2 = 1 THEN toks[i + 1] \in JsonTexts ELSE toks[i + 1] = ","

\* JSON.parse: the array, or a SyntaxError
Parse(toks) ==
  IF WellFormed(toks)
  THEN [ok |-> TRUE,
        list |-> [i \in 1..((Len(toks) - 1) \div 2) |-> JsonValue(toks[2 * i])]]
  ELSE [ok |-> FALSE, list |-> <<>>]

(***************************************************************************)
(* The Redis client: a store is a function from the existing keys to       *)
(* hashes; a hash is a function from its fields to strings.  A hash has at *)
(* least one field: Redis removes a key with its last field.               *)
(***************************************************************************)
Null == [found |-> FALSE, val |-> <<>>]

\* client.hget(key, field): the string, or null
hget(s, key, field) ==
  IF key \in DOMAIN s /\ field \in DOMAIN s[key]
  THEN [found |-> TRUE, val |-> s[key][field]]
  ELSE Null

\* client.hgetall(key): the hash, {} for a missing key
hgetall(s, key) == IF key \in DOMAIN s THEN s[key] ELSE <<>>

\* client.hset(key, field, value)
\* a write that replaces the whole hash by the one field
hset_Overwrites(s, key, field, value) ==
  [k \in DOMAIN s \cup {key} |-> IF k = key THEN [f \in {field} |-> value] ELSE s[k]]

hset(s, key, field, value) ==
  [k \in DOMAIN s \cup {key} |->
     IF k = key
     THEN [f \in (IF key \in DOMAIN s THEN DOMAIN s[key] ELSE {}) \cup {field} |->
             IF f = field THEN value ELSE s[key][f]]
     ELSE s[k]]

\* client.del(key)
del(s, key) == [k \in DOMAIN s \ {key} |-> s[k]]

\* client.hdel(key, field)
hdel(s, key, field) ==
  IF key \notin DOMAIN s \/ field \notin DOMAIN s[key] THEN s
  ELSE IF DOMAIN s[key] = {field} THEN del(s, key)
  ELSE [s EXCEPT ![key] = [f \in DOMAIN s[key] \ {field} |-> s[key][f]]]

\* if (data): a non-null, non-empty string
TruthyStr(data) == data.found /\ data.val # <<>>

(***************************************************************************)
(* Results of get and resolve.                                             *)
(***************************************************************************)
\* null
RNull == [kind |-> "null", map |-> <<>>, list |-> <<>>, key |-> <<>>]
\* a SyntaxError of JSON.parse, propagated
RThrow == [kind |-> "throw", map |-> <<>>, list |-> <<>>, key |-> <<>>]
\* { [rType]: JSON.parse(data) }, read from key
RTyped(rType, data, key) ==
  LET p == Parse(data.val)
  IN  IF p.ok
      THEN [kind |-> "map", map |-> [t \in {rType} |-> p.list], list |-> <<>>, key |-> key]
      ELSE RThrow
\* Object.fromEntries(Object.entries(data).map(([k, v]) => [k, JSON.parse(v)]))
RAll(data, key) ==
  IF \A t \in DOMAIN data : Parse(data[t]).ok
  THEN [kind |-> "map", map |-> [t \in DOMAIN data |-> Parse(data[t]).list],
        list |-> <<>>, key |-> key]
  ELSE RThrow
\* JSON.parse(data), returned as it is
RList(data, key) ==
  LET p == Parse(data.val)
  IN  IF p.ok
      THEN [kind |-> "list", map |-> <<>>, list |-> p.list, key |-> key]
      ELSE RThrow

\* one lookup of get under key k: the result, or RNull to go on
Lookup(s, k, rType) ==
  IF rType # NoType
  THEN LET data == hget(s, k, rType)
       IN  IF TruthyStr(data) THEN RTyped(rType, data, k) ELSE RNull
  ELSE LET data == hgetall(s, k)
       IN  IF DOMAIN data # {} THEN RAll(data, k) ELSE RNull

\* the last check of get, for the root wildcard '*'
LookupRoot(s, rType) ==
  IF rType # NoType
  THEN LET data == hget(s, RootWildcard, rType)
       IN  IF TruthyStr(data) THEN RList(data, RootWildcard) ELSE RNull
  ELSE LET data == hgetall(s, RootWildcard)
       IN  IF DOMAIN data # {} THEN RAll(data, RootWildcard) ELSE RNull

RECURSIVE GetWalk_NoRoot(_, _, _)
\* the walk without the last check for the root wildcard
GetWalk_NoRoot(s, key, rType) ==
  IF key = <<>> THEN RNull
  ELSE LET k2 == StripLast(key)
           r  == Lookup(s, WildcardKeyOf(k2), rType)
       IN  IF r.kind # "null" THEN r ELSE GetWalk_NoRoot(s, k2, rType)

RECURSIVE GetWalk(_, _, _)
\* while (key !== '') { strip; look up key + ':*' }, then the root wildcard
GetWalk(s, key, rType) ==
  IF key = <<>> THEN LookupRoot(s, rType)
  ELSE LET k2 == StripLast(key)
           r  == Lookup(s, WildcardKeyOf(k2), rType)
       IN  IF r.kind # "null" THEN r ELSE GetWalk(s, k2, rType)

\* get that walks the wildcards whatever the flag says
get_IgnoresFlag(s, name, rType, wildcards) ==
  LET key == nameToKey(name)
      r   == Lookup(s, key, rType)
  IN  IF r.kind # "null" THEN r ELSE GetWalk(s, key, rType)

get(s, name, rType, wildcards) ==
  LET key == nameToKey(name)
      r   == Lookup(s, key, rType)
  IN  IF r.kind # "null" THEN r
      ELSE IF ~wildcards THEN RNull
      ELSE GetWalk(s, key, rType)

RECURSIVE WalkReads_PerType(_, _, _)
\* a walk that reads each wildcard key once per record type
WalkReads_PerType(s, key, rType) ==
  IF key = <<>> THEN 1
  ELSE LET k2 == StripLast(key)
       IN  IF Lookup(s, WildcardKeyOf(k2), rType).kind # "null" THEN Cardinality(Types)
           ELSE Cardinality(Types) + WalkReads_PerType(s, k2, rType)

RECURSIVE WalkReads(_, _, _)
\* the number of client calls the wildcard loop and the root check issue
WalkReads(s, key, rType) ==
  IF key = <<>> THEN 1
  ELSE LET k2 == StripLast(key)
       IN  IF Lookup(s, WildcardKeyOf(k2), rType).kind # "null" THEN 1
           ELSE 1 + WalkReads(s, k2, rType)

\* the number of client calls (hget, hgetall) one get issues
getReads(s, name, rType, wildcards) ==
  LET key == nameToKey(name)
  IN  IF Lookup(s, key, rType).kind # "null" \/ ~wildcards THEN 1
      ELSE 1 + WalkReads(s, key, rType)

RECURSIVE ResolveWalkReads(_, _)
\* the number of client calls the loop of resolve issues
ResolveWalkReads(s, key) ==
  IF key = <<>> THEN 0
  ELSE LET k2 == StripLast(key)
       IN  IF DOMAIN hgetall(s, WildcardKeyOf(k2)) # {} THEN 1
           ELSE 1 + ResolveWalkReads(s, k2)

\* the number of client calls (hgetall) one resolve issues
resolveReads(s, name) ==
  LET key == nameToKey(name)
  IN  IF DOMAIN hgetall(s, key) # {} THEN 1
      ELSE 1 + ResolveWalkReads(s, key)

\* results of resolve: a string or null
SNull == [found |-> FALSE, str |-> <<>>]
SStr(str) == [found |-> TRUE, str |-> str]

RECURSIVE ResolveWalk_ReturnsKey(_, _)
\* the loop of resolve returning the wildcard key as it is stored
ResolveWalk_ReturnsKey(s, key) ==
  IF key = <<>> THEN SNull
  ELSE LET k2 == StripLast(key)
           wildcardKey == WildcardKeyOf(k2)
       IN  IF DOMAIN hgetall(s, wildcardKey) # {}
           THEN SStr(wildcardKey)
           ELSE ResolveWalk_ReturnsKey(s, k2)

RECURSIVE ResolveWalk(_, _)
ResolveWalk(s, key) ==
  IF key = <<>> THEN SNull
  ELSE LET k2 == StripLast(key)
           wildcardKey == WildcardKeyOf(k2)
       IN  IF DOMAIN hgetall(s, wildcardKey) # {}
           THEN SStr(keyToName(wildcardKey))
           ELSE ResolveWalk(s, k2)

resolve(s, name) ==
  LET key == nameToKey(name)
  IN  IF DOMAIN hgetall(s, key) # {} THEN SStr(key) ELSE ResolveWalk(s, key)

(***************************************************************************)
(* Writes.                                                                 *)
(***************************************************************************)
\* the data argument of set: one value, or an array of values
Scalar(v) == [isArray |-> FALSE, scalar |-> v, items |-> <<>>]
Array(list) == [isArray |-> TRUE, scalar |-> NoData, items |-> list]

\* a single value that is not wrapped into a list
AsArray_NoWrap(data) == data.items

\* if (!Array.isArray(data)) data = [data]
AsArray(data) == IF data.isArray THEN data.items ELSE <<data.scalar>>

\* set that adds the new values to the old ones
set_KeepsOld(s, name, rType, data) ==
  LET existingData == hget(s, nameToKey(name), rType)
  IN  hset(s, nameToKey(name), rType,
           Stringify((IF existingData.found THEN Parse(existingData.val).list ELSE <<>>)
                     \o AsArray(data)))

set(s, name, rType, data) ==
  hset(s, nameToKey(name), rType, Stringify(AsArray(data)))

\* the new value put in front
Appended_InFront(parsedData, data) == <<data>> \o parsedData

\* [...parsedData, data]
Appended(parsedData, data) == Append(parsedData, data)

\* append that writes the new value alone
appendWrite_DropsExisting(s, key, rType, data, existingData) ==
  hset(s, key, rType, Stringify(<<data>>))

\* append after its read: the write computed from existingData; when
\* JSON.parse throws, no write is issued
appendWrite(s, key, rType, data, existingData) ==
  IF TruthyStr(existingData)
  THEN IF Parse(existingData.val).ok
       THEN hset(s, key, rType, Stringify(Appended(Parse(existingData.val).list, data)))
       ELSE s
  ELSE hset(s, key, rType, Stringify(<<data>>))

\* JSON.parse(existingData) of append throws
appendThrows(existingData) ==
  TruthyStr(existingData) /\ ~Parse(existingData.val).ok

\* append with no other call between its read and its write
append(s, name, rType, data) ==
  LET key == nameToKey(name)
      existingData == hget(s, key, rType)
  IN  appendWrite(s, key, rType, data, existingData)

\* _isEqual(d, rData)
isEqual(d, rData) == d = rData

RECURSIVE Filtered(_, _)
\* parsedData.filter((d) => !_isEqual(d, rData))
Filtered(parsedData, rData) ==
  IF parsedData = <<>> THEN <<>>
  ELSE IF isEqual(Head(parsedData), rData) THEN Filtered(Tail(parsedData), rData)
  ELSE <<Head(parsedData)>> \o Filtered(Tail(parsedData), rData)

\* the branch without the removal of a field left empty
DeleteValue_WritesEmpty(s, key, rType, rData, existingData) ==
  hset(s, key, rType, Stringify(Filtered(Parse(existingData.val).list, rData)))

\* the branch of delete taken when rType and rData are truthy and the field exists
DeleteValue(s, key, rType, rData, existingData) ==
  LET newData == Filtered(Parse(existingData.val).list, rData)
  IN  IF ~Parse(existingData.val).ok
      THEN s  \* JSON.parse throws: no write is issued
      ELSE IF Len(newData) = 0
      THEN hdel(s, key, rType)
      ELSE hset(s, key, rType, Stringify(newData))

\* JSON.parse(existingData) of delete throws
deleteThrows(rType, rData, existingData) ==
  /\ rType # NoType /\ Truthy(rData)
  /\ TruthyStr(existingData) /\ ~Parse(existingData.val).ok

\* delete whose typed form drops the key with all its record types
delete_DropsKey(s, name, rType, rData) == del(s, nameToKey(name))

\* delete after its read (if it reads): the write computed from existingData
deleteWrite(s, key, rType, rData, existingData) ==
  IF rType # NoType /\ Truthy(rData) /\ TruthyStr(existingData)
  THEN DeleteValue(s, key, rType, rData, existingData)
  ELSE IF rType # NoType THEN hdel(s, key, rType)
  ELSE del(s, key)

\* delete with no other call between its read and its write
delete(s, name, rType, rData) ==
  LET key == nameToKey(name)
  IN  deleteWrite(s, key, rType, rData, hget(s, key, rType))

(***************************************************************************)
(* The store object and its middleware.  A store object holds the flag     *)
(* shouldCache; its EventEmitter part holds the 'cacheRequest' listener.   *)
(* A response holds the flag finished and the answers collected so far.    *)
(***************************************************************************)
\* options.shouldCache as the caller may pass it
ShouldCacheOptions == {"undefined", "true", "false"}

\* private shouldCache = true
shouldCacheDefault == TRUE

\* the 'cacheRequest' listener: none registered, one that returns, one that throws
Listeners == {"none", "returns", "throws"}

\* the argument of the constructor: an options object with a client, the
\* flag and connection options (host, port, db), each given or not
Options(client, shouldCache, connection) ==
  [given |-> TRUE, client |-> client, shouldCache |-> shouldCache,
   connection |-> connection]

\* no argument
NoOptions ==
  [given |-> FALSE, client |-> "undefined", shouldCache |-> "undefined",
   connection |-> "undefined"]

\* the arguments the constructor is given
ConstructorArgs ==
  {NoOptions} \cup {Options(c, o, h) : c \in {"undefined", "client"},
                                       o \in ShouldCacheOptions,
                                       h \in {"undefined", "host"}}

\* the outcome of a construction: the object with its fields, or the Error thrown
Constructed(options, shouldCache, client) ==
  [state |-> "constructed", shouldCache |-> shouldCache, options |-> options,
   listener |-> "none", client |-> client]

Threw(options) ==
  [state |-> "threw", shouldCache |-> shouldCacheDefault, options |-> options,
   listener |-> "none", client |-> "undefined"]

\* a constructor without the check of its argument
constructor_NoCheck(options) ==
  Constructed(options, shouldCacheDefault,
              IF Truthy(options.client) THEN "given" ELSE "new Redis(options)")

\* new RedisStore(options)
constructor(options) ==
  IF ~options.given THEN Threw(options)
  ELSE Constructed(options,
                   IF Truthy(options.shouldCache)
                   THEN options.shouldCache = "true"
                   ELSE shouldCacheDefault,
                   IF Truthy(options.client) THEN "given" ELSE "new Redis(options)")

\* store.on('cacheRequest', listener)
on(me, listener) == [me EXCEPT !.listener = listener]

DefaultTtl == 300

\* one answer of the handler
Answer(name, type, data) == [name |-> name, type |-> type, ttl |-> DefaultTtl, data |-> data]

\* a payload that leaves the records out
CacheRequest_NoRecords(zone, rType, records) ==
  [zoneName |-> zone, recordType |-> rType, records |-> <<>>]

\* the payload of a 'cacheRequest' event
CacheRequest(zone, rType, records) ==
  [zoneName |-> zone, recordType |-> rType, records |-> records]

\* emitCacheRequest declared without async: a throwing listener throws into the caller
emitCacheRequest_Sync(me, zone, rType, records) ==
  [events   |-> <<CacheRequest(zone, rType, records)>>,
   rejected |-> FALSE,
   thrown   |-> me.listener = "throws"]

\* the async emitCacheRequest: emit runs the listener at once; what the
\* listener throws rejects the returned promise, which nobody awaits
emitCacheRequest(me, zone, rType, records) ==
  [events   |-> <<CacheRequest(zone, rType, records)>>,
   rejected |-> me.listener = "throws",
   thrown   |-> FALSE]

\* the record types in the order the hash lists them
TypeOrder == <<"A", "TXT">>

\* Object.entries(result): of an object the pairs (type, list); of an array
\* the pairs (index, element), whose second member is no array
entries(result) ==
  IF result.kind = "map"
  THEN LET In(t) == t \in DOMAIN result.map
           ts    == SelectSeq(TypeOrder, In)
       IN  [i \in 1..Len(ts) |->
              [key |-> ts[i], isArray |-> TRUE, value |-> result.map[ts[i]]]]
  ELSE [i \in 1..Len(result.list) |->
          [key |-> ToString(i - 1), isArray |-> FALSE, value |-> <<result.list[i]>>]]

RECURSIVE flat(_)
\* Array.prototype.flat of a list of lists
flat(lists) == IF lists = <<>> THEN <<>> ELSE Head(lists) \o flat(Tail(lists))

\* the response after res.answer(answers)
answer(r, answers) == [r EXCEPT !.answers = @ \o answers]

\* what one invocation of the handler does: the response it leaves, the
\* events it emits, its calls of answer, emit and next in order, whether
\* its promise rejects, whether the promise of emitCacheRequest rejects,
\* and the number of reads it issues
HandlerDone(r) ==
  [res |-> r, events |-> <<>>, order |-> <<"next">>, failed |-> FALSE,
   rejected |-> FALSE, reads |-> 0]

\* the handler past its check of res.finished
handlerUnfinished(s, me, r, name, type) ==
  LET result == get(s, name, type, TRUE)
      reads  == getReads(s, name, type, TRUE)
  IN  IF result.kind = "throw"
      THEN [HandlerDone(r) EXCEPT !.order = <<>>, !.failed = TRUE, !.reads = reads]
      ELSE IF result.kind = "null"
      THEN [HandlerDone(r) EXCEPT !.reads = reads]
      ELSE LET es == entries(result)
           IN  IF \E i \in 1..Len(es) : ~es[i].isArray
               THEN \* value.map is not a function
                    [HandlerDone(r) EXCEPT !.order = <<>>, !.failed = TRUE, !.reads = reads]
               ELSE LET answers == flat([i \in 1..Len(es) |->
                                           [j \in 1..Len(es[i].value) |->
                                              Answer(name, es[i].key, es[i].value[j])]])
                        records == [i \in 1..Len(answers) |-> answers[i].data]
                        e       == emitCacheRequest(me, name, type, records)
                    IN  IF ~me.shouldCache
                        THEN [HandlerDone(answer(r, answers)) EXCEPT
                                !.order = <<"answer", "next">>, !.reads = reads]
                        ELSE IF e.thrown
                        THEN [HandlerDone(answer(r, answers)) EXCEPT
                                !.events = e.events, !.order = <<"answer", "emit">>,
                                !.failed = TRUE, !.reads = reads]
                        ELSE [HandlerDone(answer(r, answers)) EXCEPT
                                !.events = e.events,
                                !.order = <<"answer", "emit", "next">>,
                                !.rejected = e.rejected, !.reads = reads]

\* the handler without the check of res.finished
handler_NoFinishedCheck(s, me, r, name, type) == handlerUnfinished(s, me, r, name, type)

handler(s, me, r, name, type) ==
  IF r.finished THEN HandlerDone(r)
  ELSE handlerUnfinished(s, me, r, name, type)

(***************************************************************************)
(* The state: the content of the Redis database, the last completed call   *)
(* with its arguments, locals and result, the values appended in a row to  *)
(* one field since it was absent, the store object, the response the       *)
(* handler was last given, the events of that invocation, and the calls    *)
(* that have read but not yet written.                                     *)
(***************************************************************************)
VARIABLES store, last, run, self, res, emitted, calls

vars == <<store, last, run, self, res, emitted, calls>>

NoCall ==
  [op |-> "none", name |-> <<>>, rType |-> NoType, data |-> Array(<<>>),
   rData |-> NoData, wildcards |-> TRUE, existingData |-> Null, replaced |-> FALSE,
   ret |-> RNull, resolved |-> SNull,
   finished |-> FALSE, order |-> <<>>, failed |-> FALSE, rejected |-> FALSE,
   reads |-> 0, key |-> <<>>]

\* a response no handler has answered
NewResponse == [finished |-> FALSE, answers |-> <<>>]

\* a store object built with a client and nothing else
DefaultSelf == constructor(Options("client", "undefined", "undefined"))

\* the object, the response and the calls in flight, which the calls below
\* neither read nor change
Idle ==
  /\ self = DefaultSelf
  /\ res = NewResponse
  /\ emitted = <<>>
  /\ calls = <<>>

NoRun == [name |-> <<>>, rType |-> NoType, vals |-> <<>>]

\* the lists of values of at most MaxList values
Lists == UNION {[1..n -> Values] : n \in 0..MaxList}

\* the number of values stored in a field
FieldLen(s, k, t) == Len(Parse(s[k][t]).list)

RECURSIVE SumFields(_, _)
SumFields(s, fields) ==
  IF fields = {} THEN 0
  ELSE LET f == CHOOSE x \in fields : TRUE
       IN  FieldLen(s, f[1], f[2]) + SumFields(s, fields \ {f})

FieldsOf(s) == {<<k, t>> \in (DOMAIN s) \X Types : t \in DOMAIN s[k]}

\* the model explores the stores within the bounds
WithinBounds(s) ==
  /\ Cardinality(FieldsOf(s)) <= MaxFields
  /\ \A f \in FieldsOf(s) : FieldLen(s, f[1], f[2]) <= MaxList
  /\ SumFields(s, FieldsOf(s)) <= MaxRecords

Init ==
  /\ store = <<>>
  /\ last = NoCall
  /\ run = NoRun
  /\ Idle

Set(name, rType, data) ==
  /\ store' = set(store, name, rType, data)
  /\ WithinBounds(store')
  /\ last' = [NoCall EXCEPT !.op = "set", !.name = name, !.rType = rType, !.data = data,
                            \* not read by set: the field held other values
                            !.replaced =
                               LET old == hget(store, nameToKey(name), rType)
                               IN  /\ old.found
                                   /\ Parse(old.val).list # <<>>
                                   /\ Parse(old.val).list # AsArray(data)]
  /\ run' = NoRun
  /\ UNCHANGED <<self, res, emitted, calls>>

AppendOp(name, rType, data) ==
  LET existingData == hget(store, nameToKey(name), rType)
  IN  /\ store' = append(store, name, rType, data)
      /\ WithinBounds(store')
      /\ last' = [NoCall EXCEPT !.op = "append", !.name = name, !.rType = rType,
                                !.rData = data, !.existingData = existingData,
                                !.failed = appendThrows(existingData)]
      /\ run' = IF ~existingData.found
                THEN [name |-> name, rType |-> rType, vals |-> <<data>>]
                ELSE IF run.name = name /\ run.rType = rType /\ run.vals # <<>>
                THEN [run EXCEPT !.vals = Append(run.vals, data)]
                ELSE NoRun
      /\ UNCHANGED <<self, res, emitted, calls>>

Delete(name, rType, rData) ==
  /\ rType = NoType => rData = NoData
  /\ store' = delete(store, name, rType, rData)
  /\ last' = [NoCall EXCEPT !.op = "delete", !.name = name, !.rType = rType,
                            !.rData = rData,
                            !.existingData =
                               IF rType # NoType
                               THEN hget(store, nameToKey(name), rType)
                               ELSE Null,
                            !.failed =
                               deleteThrows(rType, rData, hget(store, nameToKey(name), rType))]
  /\ run' = NoRun
  /\ UNCHANGED <<self, res, emitted, calls>>

Get(name, rType, wildcards) ==
  /\ last' = [NoCall EXCEPT !.op = "get", !.name = name, !.rType = rType,
                            !.wildcards = wildcards,
                            !.ret = get(store, name, rType, wildcards),
                            !.failed = get(store, name, rType, wildcards).kind = "throw",
                            !.reads = getReads(store, name, rType, wildcards)]
  /\ UNCHANGED <<store, run, self, res, emitted, calls>>

Resolve(name) ==
  /\ last' = [NoCall EXCEPT !.op = "resolve", !.name = name,
                            !.resolved = resolve(store, name),
                            !.reads = resolveReads(store, name)]
  /\ UNCHANGED <<store, run, self, res, emitted, calls>>

\* the calls that write
Next ==
  \/ \E name \in WriteNames, rType \in Types, v \in Values :
       Set(name, rType, Scalar(v))
  \/ \E name \in WriteNames, rType \in Types, list \in Lists :
       Set(name, rType, Array(list))
  \/ \E name \in WriteNames, rType \in Types, v \in Values :
       AppendOp(name, rType, v)
  \/ \E name \in WriteNames, rType \in Types \cup {NoType}, v \in Values \cup {NoData} :
       Delete(name, rType, v)

Spec == Init /\ [][Next]_vars

(***************************************************************************)
(* Lookups against a database that already holds records: the databases   *)
(* within the bounds whose keys come from StoredNames and whose fields     *)
(* hold at least one value.                                                *)
(***************************************************************************)
\* the lists a field may hold when n fields share MaxRecords values
StoredLists(n) ==
  UNION {[1..len -> Values] : len \in 1..(IF MaxRecords - n + 1 < MaxList
                                          THEN MaxRecords - n + 1 ELSE MaxList)}

Slots == {nameToKey(n) : n \in StoredNames} \X Types

\* the database with the fields S, field f holding the list a[f]
MakeStore(S, a) ==
  [k \in {f[1] : f \in S} |->
     [t \in {f[2] : f \in {g \in S : g[1] = k}} |-> Stringify(a[<<k, t>>])]]

InitStores ==
  UNION {{MakeStore(S, a) : a \in [S -> StoredLists(Cardinality(S))]} :
           S \in {T \in SUBSET Slots : Cardinality(T) <= MaxFields}}

InitLookup ==
  /\ store \in {s \in InitStores : WithinBounds(s)}
  /\ last = NoCall
  /\ run = NoRun
  /\ Idle

NextLookup ==
  \/ \E name \in Names, rType \in Types \cup {NoType}, wildcards \in BOOLEAN :
       Get(name, rType, wildcards)
  \/ \E name \in Names : Resolve(name)

SpecLookup == InitLookup /\ [][NextLookup]_vars

(***************************************************************************)
(* The handler in a middleware chain: a store object built with any value  *)
(* of options.shouldCache, with any listener, over a database that already *)
(* holds records, is handed questions with fresh or finished responses.    *)
(***************************************************************************)
\* the names asked: one with an exact key and wildcards, one only '*' can match
QuestionNames == {N_cab, N_d}

\* what a handler earlier in the chain has answered
UpstreamAnswers == <<Answer(N_ab, "A", "'x'")>>

\* the response handed to the handler
Response(finished) ==
  [finished |-> finished, answers |-> IF finished THEN UpstreamAnswers ELSE <<>>]

\* the databases of the chain: records under an exact key, a wildcard key
\* and the root wildcard
HandlerStores ==
  {s \in InitStores :
     WithinBounds(s) /\ DOMAIN s \subseteq {nameToKey(n) : n \in {N_cab, N_star_ab, N_star}}}

InitHandler ==
  /\ store \in HandlerStores
  /\ \E o \in ShouldCacheOptions, l \in Listeners :
       self = on(constructor(Options("client", o, "undefined")), l)
  /\ last = NoCall
  /\ run = NoRun
  /\ res = NewResponse
  /\ emitted = <<>>
  /\ calls = <<>>

Handler(name, type, finished) ==
  LET out == handler(store, self, Response(finished), name, type)
  IN  /\ res' = out.res
      /\ emitted' = out.events
      /\ last' = [NoCall EXCEPT !.op = "handler", !.name = name, !.rType = type,
                                !.finished = finished, !.order = out.order,
                                !.failed = out.failed, !.rejected = out.rejected,
                                !.reads = out.reads]
      /\ UNCHANGED <<store, run, self, calls>>

NextHandler ==
  \E name \in QuestionNames, type \in Types, finished \in BOOLEAN :
    Handler(name, type, finished)

SpecHandler == InitHandler /\ [][NextHandler]_vars

(***************************************************************************)
(* One call of any operation on a database that holds records under the    *)
(* key of a name, of its parent, of a child and of its wildcard.           *)
(***************************************************************************)
N_b == <<"b">>

\* the name the calls are about with its parent, a child and its wildcard
FrameNames == {N_ab, N_b, N_cab, N_star_ab}

FrameSlots == {nameToKey(n) : n \in FrameNames} \X Types

FrameStores ==
  UNION {{MakeStore(S, a) : a \in [S -> StoredLists(Cardinality(S))]} :
           S \in {T \in SUBSET FrameSlots : Cardinality(T) <= MaxFields}}

InitFrame ==
  /\ store \in {s \in FrameStores : WithinBounds(s)}
  /\ last = NoCall
  /\ run = NoRun
  /\ Idle

\* one call per behaviour
NextFrame ==
  /\ last.op = "none"
  /\ \/ \E rType \in Types, v \in Values : Set(N_ab, rType, Scalar(v))
     \/ \E rType \in Types, list \in Lists : Set(N_ab, rType, Array(list))
     \/ \E rType \in Types, v \in Values : AppendOp(N_ab, rType, v)
     \/ \E rType \in Types \cup {NoType}, v \in Values \cup {NoData} : Delete(N_ab, rType, v)
     \/ \E rType \in Types \cup {NoType}, wildcards \in BOOLEAN : Get(N_ab, rType, wildcards)
     \/ Resolve(N_ab)
     \/ \E type \in Types, finished \in BOOLEAN : Handler(N_ab, type, finished)

SpecFrame == InitFrame /\ [][NextFrame]_vars

(***************************************************************************)
(* Calls on a database in which another writer left a field that is no     *)
(* JSON text.                                                              *)
(***************************************************************************)
\* field values that JSON.parse rejects: a truncated array, a bare word,
\* the empty string
CorruptTexts == {<<"[", "\"x\"">>, <<"x">>, <<>>}

\* the databases with one corrupt field under the key of c.a.b, alone or
\* next to a wildcard key with a list
CorruptStores ==
  {hset(s, nameToKey(N_cab), t, c) :
     s \in {<<>>} \cup {hset(<<>>, nameToKey(N_star_ab), u, Stringify(<<v>>)) :
                           u \in Types, v \in Values},
     t \in Types, c \in CorruptTexts}

InitCorrupt ==
  /\ store \in CorruptStores
  /\ last = NoCall
  /\ run = NoRun
  /\ Idle

NextCorrupt ==
  \/ \E rType \in Types \cup {NoType}, wildcards \in BOOLEAN : Get(N_cab, rType, wildcards)
  \/ \E rType \in Types, v \in Values : AppendOp(N_cab, rType, v)
  \/ \E rType \in Types, v \in Values : Delete(N_cab, rType, v)

SpecCorrupt == InitCorrupt /\ [][NextCorrupt]_vars

(***************************************************************************)
(* Construction: next to a database that holds records, a store object is  *)
(* constructed with any argument.                                          *)
(***************************************************************************)
\* no object yet
Unbuilt ==
  [state |-> "none", shouldCache |-> shouldCacheDefault, options |-> NoOptions,
   listener |-> "none", client |-> "undefined"]

InitConstruct ==
  /\ store \in HandlerStores
  /\ self = Unbuilt
  /\ last = NoCall
  /\ run = NoRun
  /\ res = NewResponse
  /\ emitted = <<>>
  /\ calls = <<>>

Construct(options) ==
  /\ self' = constructor(options)
  /\ UNCHANGED <<store, last, run, res, emitted, calls>>

NextConstruct == \E options \in ConstructorArgs : Construct(options)

SpecConstruct == InitConstruct /\ [][NextConstruct]_vars

(***************************************************************************)
(* The key conversion on its own: nameToKey applied to every name of at    *)
(* most MaxName characters.                                                *)
(***************************************************************************)
\* the characters of the names: two letters, the wildcard, the two separators
NameChars == {"a", "b", "*", ".", ":"}

\* the names of at most n characters
NamesUpTo(n) == UNION {[1..len -> NameChars] : len \in 0..n}

\* a name is given
InitCodec ==
  /\ store = <<>>
  /\ \E name \in NamesUpTo(MaxName) : last = [NoCall EXCEPT !.op = "name", !.name = name]
  /\ run = NoRun
  /\ Idle

\* nameToKey is applied to the name given
NameToKey ==
  /\ last.op = "name"
  /\ last' = [last EXCEPT !.op = "nameToKey", !.key = nameToKey(last.name)]
  /\ UNCHANGED <<store, run, self, res, emitted, calls>>

NextCodec == NameToKey

SpecCodec == InitCodec /\ [][NextCodec]_vars

(***************************************************************************)
(* Two append calls in flight on one field.  A call reads the field, and   *)
(* after the reply of the read it writes; the database runs each command   *)
(* by itself, in any order that keeps each call's read before its write.   *)
(***************************************************************************)
Callers == {1, 2}

\* the databases the two calls may start on: empty, or the field holding a list
RaceStores(key, rType) ==
  {<<>>} \cup {hset(<<>>, key, rType, Stringify(list)) : list \in StoredLists(1)}

\* an append call that has issued nothing yet; field is the content of the
\* field when the call started (not read by the code)
AppendCall(name, rType, data, field) ==
  [op |-> "append", name |-> name, rType |-> rType, data |-> data, pc |-> "read",
   existingData |-> Null, field |-> field]

InitRace ==
  /\ \E rType \in Types, v1 \in Values, v2 \in Values :
       /\ store \in RaceStores(nameToKey(N_cab), rType)
       /\ calls = [p \in Callers |->
                     AppendCall(N_cab, rType, IF p = 1 THEN v1 ELSE v2,
                                hget(store, nameToKey(N_cab), rType))]
  /\ last = NoCall
  /\ run = NoRun
  /\ self = DefaultSelf
  /\ res = NewResponse
  /\ emitted = <<>>

\* const existingData = await this.client.hget(key, rType)
AppendRead(p) ==
  /\ calls[p].op = "append" /\ calls[p].pc = "read"
  /\ calls' = [calls EXCEPT ![p].pc = "write",
                            ![p].existingData =
                               hget(store, nameToKey(calls[p].name), calls[p].rType)]
  /\ UNCHANGED <<store, last, run, self, res, emitted>>

\* await this.client.hset(...) with the list computed from existingData
AppendWrite(p) ==
  /\ calls[p].op = "append" /\ calls[p].pc = "write"
  /\ store' = appendWrite(store, nameToKey(calls[p].name), calls[p].rType,
                          calls[p].data, calls[p].existingData)
  /\ calls' = [calls EXCEPT ![p].pc = "done"]
  /\ UNCHANGED <<last, run, self, res, emitted>>

NextRace ==
  \/ \E p \in Callers : AppendRead(p)
  \/ \E p \in Callers : AppendWrite(p)

\* every reply arrives and every continuation runs
SpecRace == InitRace /\ [][NextRace]_vars /\ WF_vars(NextRace)

(***************************************************************************)
(* Two calls of any writing operation in flight on one field: append,      *)
(* set with a non-empty list, and the three forms of delete.               *)
(***************************************************************************)
\* the non-empty lists given to set
RaceSetLists == {<<"'x'">>, <<"''", "'x'">>}

\* a call that has issued nothing yet: pc is its next step
Call(op, name, rType, data, items, pc) ==
  [op |-> op, name |-> name, rType |-> rType, data |-> data, items |-> items,
   pc |-> pc, existingData |-> Null, hasRead |-> FALSE]

\* the calls on field (name, rType); a delete reads only when it is given
\* a type and a truthy value
RaceCalls(name, rType) ==
  {Call("append", name, rType, v, <<>>, "read") : v \in Values}
  \cup {Call("set", name, rType, NoData, list, "write") : list \in RaceSetLists}
  \cup {Call("delete", name, NoType, NoData, <<>>, "write"),
        Call("delete", name, rType, NoData, <<>>, "write")}
  \cup {Call("delete", name, rType, v, <<>>, IF Truthy(v) THEN "read" ELSE "write") :
          v \in Values}

InitMixed ==
  /\ \E rType \in Types :
       /\ store \in RaceStores(nameToKey(N_cab), rType)
       /\ calls \in [Callers -> RaceCalls(N_cab, rType)]
  /\ last = NoCall
  /\ run = NoRun
  /\ self = DefaultSelf
  /\ res = NewResponse
  /\ emitted = <<>>

\* await this.client.hset(key, rType, JSON.stringify(data))
SetWrite(p) ==
  /\ calls[p].op = "set" /\ calls[p].pc = "write"
  /\ store' = set(store, calls[p].name, calls[p].rType, Array(calls[p].items))
  /\ calls' = [calls EXCEPT ![p].pc = "done"]
  /\ UNCHANGED <<last, run, self, res, emitted>>

\* const existingData = await this.client.hget(key, rType)
DeleteRead(p) ==
  /\ calls[p].op = "delete" /\ calls[p].pc = "read"
  /\ calls' = [calls EXCEPT ![p].pc = "write", ![p].hasRead = TRUE,
                            ![p].existingData =
                               hget(store, nameToKey(calls[p].name), calls[p].rType)]
  /\ UNCHANGED <<store, last, run, self, res, emitted>>

\* the one write of delete: hset or hdel after the read, hdel, or del
DeleteWrite(p) ==
  /\ calls[p].op = "delete" /\ calls[p].pc = "write"
  /\ store' = deleteWrite(store, nameToKey(calls[p].name), calls[p].rType,
                          calls[p].data, calls[p].existingData)
  /\ calls' = [calls EXCEPT ![p].pc = "done"]
  /\ UNCHANGED <<last, run, self, res, emitted>>

NextMixed ==
  \/ \E p \in Callers : AppendRead(p)
  \/ \E p \in Callers : AppendWrite(p)
  \/ \E p \in Callers : SetWrite(p)
  \/ \E p \in Callers : DeleteRead(p)
  \/ \E p \in Callers : DeleteWrite(p)

SpecMixed == InitMixed /\ [][NextMixed]_vars

(***************************************************************************)
(* Vocabulary of the properties.                                           *)
(***************************************************************************)
\* the labels of a name; the empty name has none
LabelsOf(name) == IF name = <<>> THEN <<>> ELSE Split(name, ".")

\* the keys of the resolution order of a name: the exact key, the wildcard
\* keys obtained by stripping one label per step (down to no label left),
\* the root wildcard
Candidates(name) ==
  LET rev == toReversed(LabelsOf(name))
      n   == Len(rev)
  IN  <<Join(rev, ":")>>
      \o [i \in 1..n |-> Join(SubSeq(rev, 1, n - i), ":") \o <<":", "*">>]
      \o <<RootWildcard>>

\* key k holds records
Holds(s, k) == k \in DOMAIN s /\ DOMAIN s[k] # {}

\* the positions of the keys of cands that hold records
Holding(s, cands) == {i \in 1..Len(cands) : Holds(s, cands[i])}

Min(S) == CHOOSE i \in S : \A j \in S : i <= j

\* the lists stored under key k, by record type
CollectionOf(s, k) == [t \in DOMAIN s[k] |-> Parse(s[k][t]).list]

\* the list stored in field (k, t)
ListOf(s, k, t) == Parse(s[k][t]).list

HasField(s, k, t) == k \in DOMAIN s /\ t \in DOMAIN s[k]

\* the list a set call is given
GivenList(data) == IF data.isArray THEN data.items ELSE <<data.scalar>>

\* list without the entries equal to v
Without(list, v) == LET Keep(d) == d # v IN SelectSeq(list, Keep)

(***************************************************************************)
(* Resolution order (checked under SpecLookup).                            *)
(***************************************************************************)
\* C1: a typeless get with wildcards enabled returns the whole collection
\* of the first key of the resolution order that holds records (the exact
\* key, then the wildcard keys from the most to the least specific, then
\* '*'), and null exactly when none of these keys holds records.
C1_TypelessGetFirstMatch ==
  (last.op = "get" /\ last.rType = NoType /\ last.wildcards) =>
     LET cands == Candidates(last.name)
         hits  == Holding(store, cands)
     IN  IF hits = {}
         THEN last.ret.kind = "null"
         ELSE /\ last.ret.kind = "map"
              /\ last.ret.map = CollectionOf(store, cands[Min(hits)])

\* a typeless get answered by a wildcard key while a less specific key of
\* the order holds records too
C1_Witness ==
  /\ last.op = "get" /\ last.rType = NoType /\ last.wildcards
  /\ last.ret.kind = "map"
  /\ last.ret.key # nameToKey(last.name)
  /\ Cardinality(Holding(store, Candidates(last.name))) >= 2

\* C2: when the exact key holds at least one record type, get (typed or
\* typeless) and resolve never answer from a wildcard key.
C2_ExactWins ==
  Holds(store, nameToKey(last.name)) =>
     /\ (last.op = "get" /\ last.ret.kind # "null")
           => last.ret.key = nameToKey(last.name)
     /\ last.op = "resolve"
           => last.resolved = SStr(nameToKey(last.name))

\* C3: every non-null result of get is a map keyed by record type: the one
\* requested type with its stored list for a typed get, every type of the
\* matched key for a typeless get.
C3_ResultIsTypeKeyedMap ==
  (last.op = "get" /\ last.ret.kind # "null") =>
     /\ last.ret.kind = "map"
     /\ Holds(store, last.ret.key)
     /\ IF last.rType # NoType
        THEN /\ DOMAIN last.ret.map = {last.rType}
             /\ HasField(store, last.ret.key, last.rType)
             /\ last.ret.map[last.rType] = ListOf(store, last.ret.key, last.rType)
        ELSE last.ret.map = CollectionOf(store, last.ret.key)

\* C4: with wildcards disabled get reads the exact key only: the data of
\* the exact key (of the requested field), null when that is absent.
C4_WildcardsDisabled ==
  (last.op = "get" /\ ~last.wildcards) =>
     LET key == nameToKey(last.name)
     IN  IF last.rType # NoType
         THEN IF HasField(store, key, last.rType)
              THEN /\ last.ret.kind = "map"
                   /\ last.ret.map = [t \in {last.rType} |-> ListOf(store, key, last.rType)]
              ELSE last.ret.kind = "null"
         ELSE IF Holds(store, key)
              THEN /\ last.ret.kind = "map"
                   /\ last.ret.map = CollectionOf(store, key)
              ELSE last.ret.kind = "null"

\* a get with wildcards disabled that returned null although a wildcard key
\* of the name holds the requested type
C4_Witness ==
  /\ last.op = "get" /\ ~last.wildcards /\ last.rType # NoType
  /\ last.ret.kind = "null"
  /\ \E i \in 2..Len(Candidates(last.name)) :
        HasField(store, Candidates(last.name)[i], last.rType)

(***************************************************************************)
(* Record collections (checked under Spec).                                *)
(***************************************************************************)
\* C5: whatever set, append and delete calls were made, every record type
\* present under a key holds a list of at least one value.
C5_NoEmptyList ==
  \A f \in FieldsOf(store) : Len(ListOf(store, f[1], f[2])) >= 1

\* C6: a key exists exactly while it has a record type: it exists after a
\* set or an append to it; a delete leaves no field it was to remove (the
\* whole key, the type, or the type whose values all equalled the value),
\* and a key left without record type is absent, so that get without
\* wildcards returns null and resolve does not report the key.
C6_KeyExistsWhileItHasTypes ==
  LET key == nameToKey(last.name)
  IN  /\ \A k \in DOMAIN store : DOMAIN store[k] # {}
      /\ last.op \in {"set", "append"} => Holds(store, key)
      /\ (last.op = "delete" /\ last.rType = NoType) => ~Holds(store, key)
      /\ (last.op = "delete" /\ last.rType # NoType /\ last.rData = NoData)
            => ~HasField(store, key, last.rType)
      /\ (/\ last.op = "delete" /\ last.rType # NoType /\ last.rData # NoData
          /\ last.existingData.found
          /\ Without(Parse(last.existingData.val).list, last.rData) = <<>>)
            => ~HasField(store, key, last.rType)
      /\ (last.op = "delete" /\ \A t \in Types : ~HasField(store, key, t)) =>
            /\ key \notin DOMAIN store
            /\ \A t \in Types \cup {NoType} :
                  get(store, last.name, t, FALSE).kind = "null"
            /\ resolve(store, last.name) # SStr(key)

\* the last value of the last type of a key was deleted, and the key is gone
C6_Witness ==
  /\ last.op = "delete" /\ last.rType # NoType /\ last.rData # NoData
  /\ last.existingData.found
  /\ Len(Parse(last.existingData.val).list) >= 1
  /\ nameToKey(last.name) \notin DOMAIN store
  /\ store # <<>>

C9_AppendAccumulates ==
  /\ last.op = "append" =>
        /\ HasField(store, nameToKey(last.name), last.rType)
        /\ ListOf(store, nameToKey(last.name), last.rType) =
              IF last.existingData.found
              THEN Parse(last.existingData.val).list \o <<last.rData>>
              ELSE <<last.rData>>
  /\ run.vals # <<>> =>
        /\ HasField(store, nameToKey(run.name), run.rType)
        /\ ListOf(store, nameToKey(run.name), run.rType) = run.vals

\* two appends in a row on an absent field, of different values or of the
\* same value twice
C9_Witness ==
  /\ last.op = "append"
  /\ Len(run.vals) = 2
  /\ last.existingData.found

\* C10: delete(name, type, value) removes from the list of (name, type) the
\* entries equal to value and only those, keeping the order of the others;
\* the field is removed when no entry remains.
C10_DeleteValueFilters ==
  (/\ last.op = "delete" /\ last.rType # NoType /\ last.rData # NoData
   /\ last.existingData.found) =>
     LET key  == nameToKey(last.name)
         rest == Without(Parse(last.existingData.val).list, last.rData)
     IN  IF rest = <<>>
         THEN ~HasField(store, key, last.rType)
         ELSE /\ HasField(store, key, last.rType)
              /\ ListOf(store, key, last.rType) = rest

(***************************************************************************)
(* Granularity of delete (checked under Spec).                             *)
(***************************************************************************)
\* C11: delete(name, type) without a value removes the whole field of that
\* type, however many values it holds, and leaves every other record type
\* of the name and every other key as it was; delete(name) removes the key
\* with every record type under it and leaves the other keys as they were.
C11_DeleteGranularity ==
  [][(last'.op = "delete" /\ last'.rData = NoData) =>
       LET key == nameToKey(last'.name)
       IN  /\ \A k \in DOMAIN store \ {key} : k \in DOMAIN store' /\ store'[k] = store[k]
           /\ IF last'.rType # NoType
              THEN /\ ~HasField(store', key, last'.rType)
                   /\ \A t \in Types \ {last'.rType} :
                        hget(store', key, t) = hget(store, key, t)
              ELSE key \notin DOMAIN store']_vars

\* a typed delete removed a field while another type of the name remains
C11_Witness ==
  /\ last.op = "delete" /\ last.rType # NoType /\ last.rData = NoData
  /\ last.existingData.found
  /\ Holds(store, nameToKey(last.name))

\* the delete call is one the claim calls a no-op: nothing to remove
NothingToRemove(s, name, rType, rData) ==
  LET key == nameToKey(name)
  IN  IF rType = NoType THEN key \notin DOMAIN s
      ELSE IF rData = NoData THEN ~HasField(s, key, rType)
      ELSE \/ ~HasField(s, key, rType)
           \/ \A i \in 1..Len(ListOf(s, key, rType)) : ListOf(s, key, rType)[i] # rData

\* C12: a delete with nothing to remove leaves the whole store unchanged:
\* delete(name, type, value) when the key or the field is absent or the
\* list has no entry equal to value, delete(name, type) on an absent field,
\* delete(name) on an absent key.
C12_NoOpDelete ==
  [][(last'.op = "delete" /\ NothingToRemove(store, last'.name, last'.rType, last'.rData))
       => store' = store]_vars

(***************************************************************************)
(* Interleaved appends (checked under SpecRace).                           *)
(***************************************************************************)
\* the list the field held when the two calls started
RaceL == IF calls[1].field.found THEN Parse(calls[1].field.val).list ELSE <<>>

RaceKey == nameToKey(calls[1].name)

RaceDone == \A p \in Callers : calls[p].pc = "done"

\* the field holds L followed by one of the two values or by both, in either order
RaceOutcome ==
  /\ HasField(store, RaceKey, calls[1].rType)
  /\ ListOf(store, RaceKey, calls[1].rType) \in
       {RaceL \o <<calls[1].data>>, RaceL \o <<calls[2].data>>,
        RaceL \o <<calls[1].data, calls[2].data>>,
        RaceL \o <<calls[2].data, calls[1].data>>}

\* C13: two append calls on the same (name, type), started on a field
\* holding the list L, with their reads and writes interleaved in any
\* order: both calls complete, and when they have the field holds L
\* followed by one of the two values or by both; no element of L is lost
\* and the field is neither absent nor empty.
C13_InterleavedAppends ==
  /\ [](RaceDone => RaceOutcome)
  /\ <>RaceDone

\* the lost update: both calls completed and only the second value follows L
C13_Witness ==
  /\ RaceDone
  /\ RaceL # <<>>
  /\ calls[1].data # calls[2].data
  /\ ListOf(store, RaceKey, calls[1].rType) = RaceL \o <<calls[2].data>>

(***************************************************************************)
(* The handler (checked under SpecHandler).                                *)
(***************************************************************************)
\* the number of calls of next() of the last invocation
NextCalls == LET IsNext(x) == x = "next" IN Len(SelectSeq(last.order, IsNext))

\* the positions of the keys of the resolution order that hold the asked type
HoldingType(s, name, type) ==
  {i \in 1..Len(Candidates(name)) : HasField(s, Candidates(name)[i], type)}

\* the answers for the list of the first key of the resolution order that
\* holds the asked type: one per value, in order, under the asked name
ExpectedAnswers(s, name, type) ==
  LET list == ListOf(s, Candidates(name)[Min(HoldingType(s, name, type))], type)
  IN  [i \in 1..Len(list) |-> [name |-> name, type |-> type, ttl |-> 300, data |-> list[i]]]

\* C14: every invocation of the handler calls next() exactly once and does
\* not fail, whether the response was finished, the data came from the
\* exact key, a wildcard key or the root wildcard '*', or nothing was found.
C14_NextExactlyOnce ==
  last.op = "handler" => (~last.failed /\ NextCalls = 1)

\* C15: on a finished response the handler issues no read, adds no answer,
\* emits no event and only calls next().
C15_FinishedIsNoOp ==
  (last.op = "handler" /\ last.finished) =>
     /\ last.reads = 0
     /\ res = Response(TRUE)
     /\ emitted = <<>>
     /\ last.order = <<"next">>
     /\ ~last.failed

\* the response was finished and the database holds the asked type for the name
C15_Witness ==
  /\ last.op = "handler" /\ last.finished
  /\ HasField(store, nameToKey(last.name), last.rType)
  /\ self.shouldCache

\* C16: when resolution finds data the handler answers with exactly one
\* entry per (type, value) pair of the result, in stored order, each
\* { name: the asked name, type, ttl: 300, data: value }, also when the data
\* came from a wildcard key.
C16_AnswersPerValue ==
  (/\ last.op = "handler" /\ ~last.finished
   /\ HoldingType(store, last.name, last.rType) # {}) =>
     res.answers = ExpectedAnswers(store, last.name, last.rType)

\* the last invocation added answers to the response
ProducedAnswers == last.op = "handler" /\ ~last.finished /\ res.answers # <<>>

\* the data values of the answers, in order
AnswerData == [i \in 1..Len(res.answers) |-> res.answers[i].data]

\* C17: with cache notifications enabled the handler emits exactly one
\* 'cacheRequest' event per invocation that produced answers, after the
\* answers were added, with the payload { zoneName: the asked name,
\* recordType: the asked type, records: the data values of the answers in
\* order }; it emits none when resolution finds nothing or the response was
\* finished.
C17_OneCacheRequest ==
  (last.op = "handler" /\ self.shouldCache) =>
     IF ProducedAnswers
     THEN /\ emitted = <<[zoneName |-> last.name, recordType |-> last.rType,
                          records |-> AnswerData]>>
          /\ SubSeq(last.order, 1, 2) = <<"answer", "emit">>
     ELSE /\ emitted = <<>>
          /\ \A i \in 1..Len(last.order) : last.order[i] # "emit"

\* answers were produced from a wildcard key and the event was emitted
C17_Witness ==
  /\ ProducedAnswers /\ self.shouldCache
  /\ ~HasField(store, nameToKey(last.name), last.rType)
  /\ Len(emitted) = 1 /\ emitted[1].records # <<>>

\* C18: a store constructed with shouldCache false never emits a
\* 'cacheRequest' event; a store constructed without the flag emits one
\* whenever the handler produced answers.
C18_ShouldCacheFlag ==
  last.op = "handler" =>
     /\ self.options.shouldCache = "false" => emitted = <<>>
     /\ (self.options.shouldCache = "undefined" /\ ProducedAnswers) => emitted # <<>>

\* C19: a 'cacheRequest' listener that throws changes nothing for the
\* handler: the answers are those given with a listener that returns, the
\* handler does not fail, and next() is called.
C19_ListenerThrows ==
  (last.op = "handler" /\ self.listener = "throws" /\ emitted # <<>>) =>
     /\ res = handler(store, on(self, "returns"), Response(last.finished),
                      last.name, last.rType).res
     /\ res.answers # <<>>
     /\ ~last.failed
     /\ NextCalls = 1

\* the listener threw: the promise of emitCacheRequest rejected
C19_Witness ==
  /\ last.op = "handler" /\ self.listener = "throws" /\ emitted # <<>>
  /\ last.rejected

(***************************************************************************)
(* What resolve reports (checked under SpecLookup).                        *)
(***************************************************************************)
\* the dotted name of the i-th key of the resolution order of name, a
\* wildcard key: '*' in front of the labels the key keeps, in name order
DottedWildcard(name, i) ==
  LET rev  == toReversed(LabelsOf(name))
      kept == SubSeq(rev, 1, Len(rev) - (i - 1))
  IN  <<"*", ".">> \o Join(toReversed(kept), ".")

\* the positions of the exact key and of the wildcard keys (the keys ending
\* in ':*') of the resolution order of name that hold records
HoldingKeyed(s, name) ==
  {i \in 1..(Len(Candidates(name)) - 1) : Holds(s, Candidates(name)[i])}

C21_ResolveMatchesGet ==
  last.op = "resolve" =>
     LET g == get(store, last.name, NoType, TRUE)
     IN  /\ last.resolved.found <=> g.kind # "null"
         /\ last.resolved.found =>
              \/ last.resolved.str = g.key
              \/ nameToKey(last.resolved.str) = g.key

\* the keys the claim allows a lookup of name to read: the exact key, the
\* wildcard keys of the non-empty proper prefixes of its labels, the root
\* wildcard
ProperKeys(name) ==
  LET rev == toReversed(LabelsOf(name))
      n   == Len(rev)
  IN  {nameToKey(name), RootWildcard}
      \cup {Join(SubSeq(rev, 1, i), ":") \o <<":", "*">> : i \in 1..(n - 1)}

\* C25: get and resolve read only the exact key, the wildcard keys P + ':*'
\* with P a non-empty proper prefix of the labels of the exact key, and
\* last the root wildcard '*'; the key ':*' is never read, so records
\* stored under it are never returned nor reported.
C25_OnlyProperPrefixKeys ==
  /\ (last.op = "get" /\ last.ret.kind # "null") => last.ret.key \in ProperKeys(last.name)
  /\ (last.op = "resolve" /\ last.resolved.found) =>
        \/ last.resolved.str \in ProperKeys(last.name)
        \/ nameToKey(last.resolved.str) \in ProperKeys(last.name)

\* C29: get and resolve terminate, and one call issues at most one read
\* for the exact key, one per label of the name, and one for the root
\* wildcard.
C29_ReadsBounded ==
  /\ last.op = "get" => (last.reads >= 1 /\ last.reads <= Len(LabelsOf(last.name)) + 2)
  /\ last.op = "resolve" => (last.reads >= 1 /\ last.reads <= Len(LabelsOf(last.name)) + 1)

\* a get of a name of three labels found nothing and issued the most reads
C29_Witness ==
  /\ last.op = "get" /\ last.wildcards /\ last.ret.kind = "null"
  /\ Len(LabelsOf(last.name)) = 3
  /\ last.reads = 5
  /\ store # <<>>

(***************************************************************************)
(* The key conversion (checked under SpecCodec).                           *)
(***************************************************************************)
\* no character of the name is the key separator
ColonFree(name) == \A i \in 1..Len(name) : name[i] # ":"

\* the colon-free names of at most three characters with their keys
ShortKeys == {<<m, nameToKey(m)>> : m \in {n \in NamesUpTo(3) : ColonFree(n)}}

\* C23: nameToKey reverses the order of the labels of a name and joins them
\* with ':' ('*.a.b' -> 'b:a:*', 'a.b' -> 'b:a', a single label -> itself,
\* '*' -> '*'); for a name whose labels hold no ':' the inverse transform
\* gives the name back, so no other name has the same key.
C23_KeyRoundTrip ==
  last.op = "nameToKey" =>
     /\ last.name = <<"*", ".", "a", ".", "b">> => last.key = <<"b", ":", "a", ":", "*">>
     /\ last.name = <<"a", ".", "b">> => last.key = <<"b", ":", "a">>
     /\ last.name = <<"a", "b">> => last.key = <<"a", "b">>
     /\ last.name = <<"*">> => last.key = <<"*">>
     /\ ColonFree(last.name) =>
          /\ Split(last.key, ":") = toReversed(Split(last.name, "."))
          /\ keyToName(last.key) = last.name
          /\ \A p \in ShortKeys : p[2] = last.key => p[1] = last.name

\* a wildcard name of three labels was converted
C23_Witness ==
  /\ last.op = "nameToKey"
  /\ last.name = <<"*", ".", "a", ".", "b">>
  /\ keyToName(last.key) = last.name

Corrupt(s, k, t) == HasField(s, k, t) /\ ~Parse(s[k][t]).ok

\* C22: when the field value that get, append or delete(name, type, value)
\* reads is not valid JSON, the call ends in an error and the store is left
\* exactly as it was.
C22_CorruptSurfaces ==
  [][LET key == nameToKey(last'.name)
     IN  (\/ /\ last'.op = "get" /\ last'.rType # NoType
              /\ Corrupt(store, key, last'.rType)
          \/ /\ last'.op = "get" /\ last'.rType = NoType
              /\ \E t \in Types : Corrupt(store, key, t)
          \/ /\ last'.op = "append"
              /\ Corrupt(store, key, last'.rType)
          \/ /\ last'.op = "delete" /\ last'.rType # NoType /\ last'.rData # NoData
              /\ Corrupt(store, key, last'.rType))
         => (last'.failed /\ store' = store)]_vars

(***************************************************************************)
(* Interleaved writes of any kind (checked under SpecMixed).               *)
(***************************************************************************)
\* value v occurs in list
InList(list, v) == \E i \in 1..Len(list) : list[i] = v

\* the field holds what call q wrote
RecordsPresent(q) ==
  LET key == nameToKey(calls[q].name)
      t   == calls[q].rType
  IN  /\ HasField(store, key, t)
      /\ calls[q].op = "append" => InList(ListOf(store, key, t), calls[q].data)
      /\ calls[q].op = "set" =>
           \A i \in 1..Len(calls[q].items) : InList(ListOf(store, key, t), calls[q].items[i])

\* C26: a delete(name, type, value) whose read found the field absent
\* performs no write: whatever the interleaving with a set or an append on
\* the same (name, type), once both have completed the records the other
\* call wrote are present.
C26_AbsentDeleteWritesNothing ==
  \A p \in Callers, q \in Callers :
     (/\ p # q
      /\ calls[p].op = "delete" /\ calls[p].hasRead /\ ~calls[p].existingData.found
      /\ calls[p].pc = "done"
      /\ calls[q].op \in {"set", "append"} /\ calls[q].pc = "done")
     => RecordsPresent(q)

\* C27: in every interleaving of the reads and writes of append, the three
\* forms of delete and set with a non-empty list, no field of the store
\* ever holds an empty list.
C27_NeverEmptyList ==
  \A k \in DOMAIN store : \A t \in DOMAIN store[k] :
     Parse(store[k][t]).ok /\ Parse(store[k][t]).list # <<>>

\* a delete by value read the list, a delete of the whole field removed
\* it, and the first then wrote the rest of what it had read: the removed
\* values are back
C27_Witness ==
  \E p \in Callers, q \in Callers :
     /\ p # q
     /\ calls[p].op = "delete" /\ calls[p].hasRead /\ calls[p].existingData.found
     /\ calls[q].op = "delete" /\ calls[q].rType # NoType /\ calls[q].data = NoData
     /\ calls[p].pc = "done" /\ calls[q].pc = "done"
     /\ HasField(store, nameToKey(calls[p].name), calls[p].rType)

(***************************************************************************)
(* Frame of the operations (checked under SpecFrame).                      *)
(***************************************************************************)
\* C28: set, append, delete(name, type) and delete(name, type, value)
\* change at most the field (nameToKey(name), type): every other record
\* type of the key and every other key is unchanged; delete(name) changes
\* only the key nameToKey(name), not its parent, child or wildcard keys;
\* get, resolve and the handler leave the store unchanged.
C28_Frame ==
  [][LET key == nameToKey(last'.name)
         t   == last'.rType
     IN  /\ last'.op \in {"set", "append", "delete"} =>
              /\ DOMAIN store' \subseteq DOMAIN store \cup {key}
              /\ \A k \in DOMAIN store \ {key} :
                   k \in DOMAIN store' /\ store'[k] = store[k]
              /\ t # NoType =>
                   \A u \in Types \ {t} : hget(store', key, u) = hget(store, key, u)
         /\ last'.op \in {"get", "resolve", "handler"} => store' = store]_vars

\* a typed delete removed a field of the name while its wildcard key holds records
C28_Witness ==
  /\ last.op = "delete" /\ last.rType # NoType
  /\ last.existingData.found
  /\ ~HasField(store, nameToKey(last.name), last.rType)
  /\ Holds(store, nameToKey(N_star_ab))

====
